---- MODULE Spec2Model ----
(***************************************************************************)
(* seeker: the rule-based DNS resolver (dnsserver/src/resolver.rs), the    *)
(* connection ledger of the store (store/src/connections.rs) and the       *)
(* binding store the resolver calls into.                                  *)
(*                                                                         *)
(* IPv4 addresses are 32-bit integers; their text form is the dotted quad, *)
(* modelled as the tuple of its four octets.  Option<T> is a sequence of   *)
(* length 0 (None) or 1 (Some).                                            *)
(***************************************************************************)
EXTENDS Integers, Sequences, FiniteSets, TLC

----------------------------------------------------------------------------
(* Bounds of the model *)

\* number of addresses in the synthetic pool
PoolSize == 2
\* connection ids are 1..MaxId
MaxId == 2
\* the clock advances at most MaxTicks seconds past StartClock
MaxTicks == 2

----------------------------------------------------------------------------
(* Values *)

Domains == {"baidu.com", "example.org", "corp.local"}
QTypes == {"A", "AAAA", "TXT"}
Tasks == {"t1", "t2"}
Actions == {"Direct", "Proxy", "Reject"}
\* Option<Action>: what action_for_domain returns
RuleResults == Actions \cup {"None"}

\* 10.128.0.0, the base of the synthetic pool
PoolBase == 176160768
PoolIps == {PoolBase + i : i \in 1..PoolSize}
\* 10.0.0.10, the address /etc/hosts gives corp.local
HostsIp == 167772170
\* 10.1.0.1, an address outside the pool
OutsideIp == 167837697
\* 93.184.216.34, what the upstream server answers for A/AAAA
RealIp == 1572395042
\* TTL of every synthesized record
SyntheticTtl == 3
\* TTL of the records the upstream server returns
UpstreamTtl == 300

None == <<>>
Some(x) == <<x>>

----------------------------------------------------------------------------
(* Address text: Ipv4Addr <-> dotted quad *)

\* Ipv4Addr::to_string, as get_random_a hands the address to the caller
FormatAddr(ip) ==
    << ip \div 16777216, (ip \div 65536) % 256, (ip \div 256) % 256, ip % 256 >>

\* ParseAddr with a byte-order fault: the octets read in little-endian order
ParseAddrLE(addr) ==
    addr[4] * 16777216 + addr[3] * 65536 + addr[2] * 256 + addr[1]

\* addr.parse::<Ipv4Addr>()
ParseAddr(addr) ==
    addr[1] * 16777216 + addr[2] * 65536 + addr[3] * 256 + addr[4]

----------------------------------------------------------------------------
(* State *)

VARIABLES
    hosts,          \* Inner.hosts: the /etc/hosts snapshot, domain -> ip
    rules,          \* Inner.rules: domain -> Option<Action>
    bypass_direct,  \* Inner.bypass_direct
    bindings,       \* the store's binding table, oldest binding first
    ledger,         \* the store's connections table: its rows, by rowid
    clock,          \* now(): unix seconds
    task,           \* the resolve calls in flight, one per resolver task
    client,         \* RuledClient: rule, default action, proxy_uid
    flows,          \* the flows the TUN device handed to the dispatcher
    next_id,        \* the counter connection ids are minted from
    direct          \* one call of the Direct transport, step by step

vars == << hosts, rules, bypass_direct, bindings, ledger, clock, task,
           client, flows, next_id, direct >>
config == << hosts, rules, bypass_direct >>
dispatcher == << client, flows, next_id >>

----------------------------------------------------------------------------
(* The binding store: domain <-> synthetic IPv4 *)

Min(S) == CHOOSE x \in S : \A y \in S : x <= y

Remove(s, i) == SubSeq(s, 1, i - 1) \o SubSeq(s, i + 1, Len(s))

BoundAt(b, d) == {i \in 1..Len(b) : b[i].host = d}

UsedIps(b) == {b[i].ip : i \in 1..Len(b)}

\* the hosts that a live connection record refers to
AliveHosts(l) == {l[i].host : i \in {j \in 1..Len(l) : l[j].is_alive}}

\* the bindings no live connection refers to
Evictable(b, l) == {i \in 1..Len(b) : b[i].host \notin AliveHosts(l)}

\* get_ipv4_by_host with a fault: an existing binding is not looked up,
\* every call mints
get_ipv4_by_host_mint(b, l, d) ==
    IF Len(b) < PoolSize
    THEN LET ip == Min(PoolIps \ UsedIps(b))
         IN  [ok |-> TRUE, ip |-> ip,
              bindings |-> Append(b, [host |-> d, ip |-> ip])]
    ELSE IF Evictable(b, l) # {}
    THEN LET i == Min(Evictable(b, l))
         IN  [ok |-> TRUE, ip |-> b[i].ip,
              bindings |-> Append(Remove(b, i), [host |-> d, ip |-> b[i].ip])]
    ELSE [ok |-> FALSE, ip |-> 0, bindings |-> b]

\* Store::get_ipv4_by_host, one transaction: the existing binding, else the
\* next free address of the pool, else the address of the oldest binding no
\* live connection refers to (whose entry is overwritten), else PoolExhausted
get_ipv4_by_host(b, l, d) ==
    IF BoundAt(b, d) # {}
    THEN [ok |-> TRUE, ip |-> b[Min(BoundAt(b, d))].ip, bindings |-> b]
    ELSE IF Len(b) < PoolSize
    THEN LET ip == Min(PoolIps \ UsedIps(b))
         IN  [ok |-> TRUE, ip |-> ip,
              bindings |-> Append(b, [host |-> d, ip |-> ip])]
    ELSE IF Evictable(b, l) # {}
    THEN LET i == Min(Evictable(b, l))
         IN  [ok |-> TRUE, ip |-> b[i].ip,
              bindings |-> Append(Remove(b, i), [host |-> d, ip |-> b[i].ip])]
    ELSE [ok |-> FALSE, ip |-> 0, bindings |-> b]

\* Store::get_host_by_ipv4
get_host_by_ipv4(b, ip) ==
    LET at == {i \in 1..Len(b) : b[i].ip = ip}
    IN  IF at = {} THEN None ELSE Some(b[Min(at)].host)

\* RuleBasedDnsResolver::lookup_host
lookup_host(addr) == get_host_by_ipv4(bindings, ParseAddr(addr))

----------------------------------------------------------------------------
(* The resolver *)

\* DnsPacket::new() and the packets resolve returns; an io::Error carries no
\* answers
Packet(answers) == [ok |-> TRUE, answers |-> answers]
IoError == [ok |-> FALSE, answers |-> <<>>]

\* DnsRecord
Record(rtype, domain, addr, ttl) ==
    [rtype |-> rtype, domain |-> domain, addr |-> addr, ttl |-> ttl]

\* the record types resolve_real converts; every other type is dropped
SupportedTypes == {"A", "AAAA", "CNAME", "MX", "NS", "SOA", "TXT", "SRV"}

\* what the upstream lookup may produce for a query: an error, the record
\* asked for, or that record after one of a type resolve_real does not know
UpstreamLookups(q) ==
    LET rec == [rtype |-> q, data |-> RealIp, ttl |-> UpstreamTtl]
        caa == [rtype |-> "CAA", data |-> 0, ttl |-> UpstreamTtl]
    IN  { [err |-> TRUE, records |-> <<>>],
          [err |-> FALSE, records |-> <<rec>>],
          [err |-> FALSE, records |-> <<caa, rec>>] }

RECURSIVE ConvertRecords(_, _)
\* the loop of resolve_real over lookup.record_iter()
ConvertRecords(domain, records) ==
    IF records = <<>> THEN <<>>
    ELSE LET r == Head(records)
             rest == ConvertRecords(domain, Tail(records))
         IN  IF r.rtype \in SupportedTypes
             THEN <<Record(r.rtype, domain, r.data, r.ttl)>> \o rest
             ELSE rest

\* RuleBasedDnsResolver::resolve_real, given what the lookup produced
resolve_real(domain, lookup) ==
    IF lookup.err THEN IoError
    ELSE Packet(ConvertRecords(domain, lookup.records))

\* Hosts::get
hosts_get(d) == IF d \in DOMAIN hosts THEN Some(hosts[d]) ELSE None

\* IsAddrQuery with a fault: TXT is taken for an address query
IsAddrQueryAlsoTxt(q) == q \in {"A", "AAAA", "TXT"}

\* matches!(qtype, QueryType::A | QueryType::AAAA)
IsAddrQuery(q) == q \in {"A", "AAAA"}

\* RuleRoute with a fault: Reject is not matched and falls through
RuleRouteNoReject(action) ==
    CASE action = "Direct" /\ bypass_direct -> "real"
      [] OTHER -> "store"

\* RuleRoute with a fault: the bypass_direct guard is dropped
RuleRouteNoGuard(action) ==
    CASE action = "Direct" -> "real"
      [] action = "Reject" -> "reject"
      [] OTHER -> "store"

\* RuleRoute with a fault: the bypass_direct guard is inverted
RuleRouteNotBypass(action) ==
    CASE action = "Direct" /\ ~bypass_direct -> "real"
      [] action = "Reject" -> "reject"
      [] OTHER -> "store"

\* the match on rules.action_for_domain(domain)
RuleRoute(action) ==
    CASE action = "Direct" /\ bypass_direct -> "real"
      [] action = "Reject" -> "reject"
      [] OTHER -> "store"

\* Route with a fault: the rules are consulted before /etc/hosts
RouteRulesFirst(d, q) ==
    IF ~IsAddrQuery(q) THEN "real"
    ELSE IF RuleRoute(rules[d]) # "store" THEN RuleRoute(rules[d])
    ELSE IF hosts_get(d) # None THEN "hosts"
    ELSE "store"

\* the part of resolve that runs before it awaits or calls the store: which
\* of its four exits the query takes
Route(d, q) ==
    IF ~IsAddrQuery(q) THEN "real"
    ELSE IF hosts_get(d) # None THEN "hosts"
    ELSE RuleRoute(rules[d])

\* the one-record packet resolve builds from the /etc/hosts address
HostsAnswer(d, ip) == Packet(<<Record("A", d, ip, SyntheticTtl)>>)

\* the one-record packet resolve builds from the synthetic address
SyntheticAnswer(d, ip) == Packet(<<Record("A", d, ip, SyntheticTtl)>>)

IdleTask ==
    [pc |-> "idle", domain |-> "", qtype |-> "", ret |-> IoError,
     upstream |-> 0, store_err |-> FALSE]

\* resolve(domain, qtype) up to its first await or store call
Resolve(t, d, q) ==
    /\ task[t].pc = "idle"
    /\ LET route == Route(d, q)
           call == [IdleTask EXCEPT !.domain = d, !.qtype = q]
       IN  task' = [task EXCEPT ![t] =
              CASE route = "hosts" ->
                     [call EXCEPT !.pc = "done",
                                  !.ret = HostsAnswer(d, hosts_get(d)[1])]
                [] route = "reject" ->
                     [call EXCEPT !.pc = "done", !.ret = Packet(<<>>)]
                [] OTHER -> [call EXCEPT !.pc = route]]
    /\ UNCHANGED << config, dispatcher, direct, bindings, ledger, clock >>

\* self.resolve_real(domain, qtype).await
ResolveReal(t) ==
    /\ task[t].pc = "real"
    /\ \E lookup \in UpstreamLookups(task[t].qtype) :
          task' = [task EXCEPT ![t].pc = "done",
                               ![t].upstream = @ + 1,
                               ![t].ret = resolve_real(task[t].domain, lookup)]
    /\ UNCHANGED << config, dispatcher, direct, bindings, ledger, clock >>

\* Store::global().get_ipv4_by_host(domain).expect("get domain") and the
\* answer built from it; expect panics on Err
ResolveStore(t) ==
    /\ task[t].pc = "store"
    /\ LET r == get_ipv4_by_host(bindings, ledger, task[t].domain)
       IN  IF r.ok
           THEN /\ bindings' = r.bindings
                /\ task' = [task EXCEPT ![t].pc = "done",
                               ![t].ret = SyntheticAnswer(task[t].domain, r.ip)]
           ELSE /\ bindings' = bindings
                /\ task' = [task EXCEPT ![t].pc = "panicked",
                                        ![t].store_err = TRUE]
    /\ UNCHANGED << config, dispatcher, direct, ledger, clock >>

\* the packet is handed to the DNS server and the task takes the next query
Return(t) ==
    /\ task[t].pc = "done"
    /\ task' = [task EXCEPT ![t] = IdleTask]
    /\ UNCHANGED << config, dispatcher, direct, bindings, ledger, clock >>

----------------------------------------------------------------------------
(* The connection ledger *)

Ids == 1..MaxId
\* unix seconds at start; clear_dead_connections computes now() - timeout_secs
\* in u64, so every timeout of the model is at most StartClock
StartClock == 10
Times == StartClock..(StartClock + MaxTicks)
\* (recv_bytes, send_bytes) a caller reports
ByteCounts == { <<100, 200>> }
\* timeout_secs the sweeper is called with
Timeouts == {0, 1}

\* the ids of the table's rows
RowIds(l) == {l[i].id : i \in 1..Len(l)}

\* the rows of the table, as a set
Rows(l) == {l[i] : i \in 1..Len(l)}

\* the row new_connection inserts
NewRecord(id, host, network, conn_type, proxy_server, now) ==
    [id |-> id, host |-> host, network |-> network, conn_type |-> conn_type,
     recv_bytes |-> 0, send_bytes |-> 0, proxy_server |-> proxy_server,
     connect_time |-> now, last_update |-> now, is_alive |-> TRUE]

\* a row put into the table, which is kept in rowid (= id) order
InsertRow(l, row) ==
    LET k == Cardinality({i \in 1..Len(l) : l[i].id <= row.id})
    IN  SubSeq(l, 1, k) \o <<row>> \o SubSeq(l, k + 1, Len(l))

\* the table's key with a fault: id is an ordinary column
KeyAllowsAnyId(l, id) == TRUE

\* connections(id INTEGER PRIMARY KEY, ...): a row with this id may be
\* inserted only if no row has it
KeyAllows(l, id) == id \notin RowIds(l)

\* Store::new_connection: INSERT; when the table refuses the row, execute's
\* error is returned by `?` and the table is left as it was
new_connection(l, id, host, network, conn_type, proxy_server, now) ==
    IF KeyAllows(l, id)
    THEN [ok |-> TRUE,
          ledger |-> InsertRow(l, NewRecord(id, host, network, conn_type,
                                            proxy_server, now))]
    ELSE [ok |-> FALSE, ledger |-> l]

\* last_update.unwrap_or_else(|| now())
UnwrapOrNow(last_update, now) ==
    IF last_update = None THEN now ELSE last_update[1]

\* update_connection with a fault: a missing row is inserted (an upsert)
update_connection_upsert(l, id, recv_bytes, send_bytes, last_update, now) ==
    IF id \in RowIds(l)
    THEN [i \in 1..Len(l) |->
            IF l[i].id = id
            THEN [l[i] EXCEPT !.recv_bytes = recv_bytes,
                              !.send_bytes = send_bytes,
                              !.last_update = UnwrapOrNow(last_update, now)]
            ELSE l[i]]
    ELSE InsertRow(l, [NewRecord(id, "", "", "", "", now)
                          EXCEPT !.recv_bytes = recv_bytes,
                                 !.send_bytes = send_bytes])

\* Store::update_connection: UPDATE ... WHERE id = ?
update_connection(l, id, recv_bytes, send_bytes, last_update, now) ==
    [i \in 1..Len(l) |->
        IF l[i].id = id
        THEN [l[i] EXCEPT !.recv_bytes = recv_bytes,
                          !.send_bytes = send_bytes,
                          !.last_update = UnwrapOrNow(last_update, now)]
        ELSE l[i]]

\* shutdown_connection with a fault: the flag is toggled instead of cleared
shutdown_connection_toggle(l, id, now) ==
    [i \in 1..Len(l) |->
        IF l[i].id = id
        THEN [l[i] EXCEPT !.is_alive = ~@, !.last_update = now]
        ELSE l[i]]

\* shutdown_connection with a fault: only the timestamp is written
shutdown_connection_stamp(l, id, now) ==
    [i \in 1..Len(l) |->
        IF l[i].id = id THEN [l[i] EXCEPT !.last_update = now] ELSE l[i]]

\* Store::shutdown_connection: UPDATE SET is_alive = 0, last_update = now()
\* WHERE id = ?
shutdown_connection(l, id, now) ==
    [i \in 1..Len(l) |->
        IF l[i].id = id
        THEN [l[i] EXCEPT !.is_alive = FALSE, !.last_update = now]
        ELSE l[i]]

\* clear_dead_connections with a fault: the DELETE does not look at is_alive
clear_dead_connections_any(l, timeout_secs, now) ==
    SelectSeq(l, LAMBDA r : ~(r.last_update <= now - timeout_secs))

\* clear_dead_connections with a fault: < for <=
clear_dead_connections_lt(l, timeout_secs, now) ==
    SelectSeq(l, LAMBDA r :
        ~(~r.is_alive /\ r.last_update < now - timeout_secs))

\* Store::clear_dead_connections: DELETE WHERE is_alive = 0 AND
\* last_update <= now() - timeout_secs
clear_dead_connections(l, timeout_secs, now) ==
    SelectSeq(l, LAMBDA r :
        ~(~r.is_alive /\ r.last_update <= now - timeout_secs))

NewConnection(id, host) ==
    /\ ledger' = new_connection(ledger, id, host, "tcp", "client", "proxy.com",
                                clock).ledger
    /\ UNCHANGED << config, dispatcher, direct, bindings, clock, task >>

UpdateConnection(id, bytes, last_update) ==
    /\ ledger' = update_connection(ledger, id, bytes[1], bytes[2], last_update,
                                   clock)
    /\ UNCHANGED << config, dispatcher, direct, bindings, clock, task >>

ShutdownConnection(id) ==
    /\ ledger' = shutdown_connection(ledger, id, clock)
    /\ UNCHANGED << config, dispatcher, direct, bindings, clock, task >>

ClearDeadConnections(timeout_secs) ==
    /\ ledger' = clear_dead_connections(ledger, timeout_secs, clock)
    /\ UNCHANGED << config, dispatcher, direct, bindings, clock, task >>

\* a second passes
Tick ==
    /\ clock < StartClock + MaxTicks
    /\ clock' = clock + 1
    /\ UNCHANGED << config, dispatcher, direct, bindings, ledger, task >>

----------------------------------------------------------------------------
(* The flow dispatcher: RuledClient over the Direct and the Proxy transport *)

\* the dispatcher tasks, each handling one flow
Flows == 1..2
Networks == {"tcp", "udp"}
ProxyUid == 1000

\* std::net::SocketAddr and its Display, "a.b.c.d:port"
SocketAddr(ip, port) == [ip |-> ip, port |-> port]
SocketAddrToString(a) ==
    LET o == FormatAddr(a.ip)
    IN  ToString(o[1]) \o "." \o ToString(o[2]) \o "." \o ToString(o[3])
        \o "." \o ToString(o[4]) \o ":" \o ToString(a.port)

\* config::Address, the destination of a flow
SocketAddress(a) == [form |-> "socket", addr |-> a, domain |-> ""]
DomainNameAddress(domain, port) ==
    [form |-> "domain", addr |-> SocketAddr(0, port), domain |-> domain]
Addresses ==
    {SocketAddress(SocketAddr(RealIp, 443)),
     DomainNameAddress("example.org", 443)}

\* the names the rule engine is asked about
Names == {"example.org", "93.184.216.34:443"}

\* the TUN socket of a flow: its two ends
TunSocket == [remote_addr |-> SocketAddr(OutsideIp, 50000),
              local_addr |-> SocketAddr(PoolBase + 1, 443)]

\* what list_user_proc_socks(uid) gives when a flow is dispatched: an error,
\* or the local addresses of the sockets the user's processes hold
OsResults ==
    {[ok |-> FALSE, socks |-> {}]} \cup
    {[ok |-> TRUE, socks |-> S] :
        S \in {{}, {TunSocket.remote_addr}, {TunSocket.local_addr}}}

\* RuledClient's configuration
ClientRules ==
    {[n \in Names |-> IF n = m THEN a ELSE "None"] :
        m \in Names, a \in RuleResults}
Clients ==
    [rule : ClientRules, default_action : Actions,
     proxy_uid : {None, Some(ProxyUid)}]
RuleOnlyClient ==
    [rule |-> [n \in Names |-> "None"], default_action |-> "Direct",
     proxy_uid |-> None]

\* socket_addr_belong_to_user with a fault: an enumeration error counts as
\* "not the user's"
socket_addr_belong_to_user_lenient(addr, os) ==
    [ok |-> TRUE, val |-> os.ok /\ addr \in os.socks]

\* socket_addr_belong_to_user: Result<bool>
socket_addr_belong_to_user(addr, os) ==
    IF os.ok THEN [ok |-> TRUE, val |-> addr \in os.socks]
    ELSE [ok |-> FALSE, val |-> FALSE]

\* OwnerEndpoint with a fault: handle_udp asks for remote_addr too
OwnerEndpointRemote(network, socket) == socket.remote_addr

\* the end of the TUN socket the owner is looked up by: remote_addr in
\* handle_tcp, local_addr in handle_udp
OwnerEndpoint(network, socket) ==
    IF network = "tcp" THEN socket.remote_addr ELSE socket.local_addr

\* the name the rules are asked about: a.to_string() or the domain
DisplayName(addr) ==
    IF addr.form = "socket" THEN SocketAddrToString(addr.addr)
    ELSE addr.domain

\* RuleAction with a fault: the default action, whatever the rules say
RuleActionDefault(c, name) == c.default_action

\* rule.action_for_domain(&domain).unwrap_or_else(|| rule.default_action())
RuleAction(c, name) ==
    IF c.rule[name] = "None" THEN c.default_action ELSE c.rule[name]

\* the first half of RuledClient::handle_tcp / handle_udp: the action, or the
\* error `?` returns
ChooseAction(c, network, socket, addr, os) ==
    IF c.proxy_uid = None
    THEN [ok |-> TRUE, enumerated |-> 0, pass_proxy |-> FALSE,
          action |-> RuleAction(c, DisplayName(addr))]
    ELSE LET belongs ==
                 socket_addr_belong_to_user(OwnerEndpoint(network, socket), os)
         IN  IF ~belongs.ok
             THEN [ok |-> FALSE, enumerated |-> 1, pass_proxy |-> FALSE,
                   action |-> "None"]
             ELSE [ok |-> TRUE, enumerated |-> 1, pass_proxy |-> ~belongs.val,
                   action |-> IF ~belongs.val THEN "Direct"
                              ELSE RuleAction(c, DisplayName(addr))]

\* a flow slot before the TUN device delivers a flow into it
IdleFlow ==
    [pc |-> "idle", network |-> "tcp",
     addr |-> DomainNameAddress("example.org", 443),
     os |-> [ok |-> TRUE, socks |-> {}], id |-> 0,
     enumerated |-> 0, pass_proxy |-> FALSE, action |-> "None",
     direct_calls |-> 0, proxy_calls |-> 0, ret |-> "pending"]

\* a new flow arrives at the first free task: the dispatcher mints an id from
\* the counter and registers the connection record; a refused ledger write
\* does not abort the flow
Accept(f, network, addr) ==
    /\ flows[f].pc = "idle"
    /\ \A g \in Flows : g < f => flows[g].pc # "idle"
    /\ next_id <= MaxId
    /\ ledger' = new_connection(ledger, next_id, DisplayName(addr), network,
                                "client", "proxy.com", clock).ledger
    /\ next_id' = next_id + 1
    /\ flows' = [flows EXCEPT ![f] =
                    [@ EXCEPT !.pc = "accepted", !.network = network,
                              !.addr = addr, !.id = next_id]]
    /\ UNCHANGED << config, bindings, clock, task, client, direct >>

\* RuledClient::handle_tcp / handle_udp up to the await of the transport; os
\* is what the OS answers if it is asked
Dispatch(f, os) ==
    /\ flows[f].pc = "accepted"
    /\ LET fl == flows[f]
           chosen == ChooseAction(client, fl.network, TunSocket, fl.addr, os)
           seen == [fl EXCEPT !.enumerated = chosen.enumerated,
                              !.os = IF chosen.enumerated = 1 THEN os ELSE @,
                              !.pass_proxy = chosen.pass_proxy,
                              !.action = chosen.action]
       IN  flows' = [flows EXCEPT ![f] =
              IF ~chosen.ok
              THEN [seen EXCEPT !.pc = "handled", !.ret = "enum_err"]
              ELSE IF chosen.action = "Reject"
              THEN [seen EXCEPT !.pc = "handled", !.ret = "ok"]
              ELSE IF chosen.action = "Direct"
              THEN [seen EXCEPT !.pc = "direct", !.direct_calls = @ + 1]
              ELSE [seen EXCEPT !.pc = "proxy", !.proxy_calls = @ + 1]]
    /\ UNCHANGED << config, bindings, ledger, clock, task, client, next_id,
                    direct >>

\* the transport's future completes, with Ok(()) or an error, and
\* RuledClient::handle_tcp / handle_udp returns what it returned
TransportReturns(f, ok) ==
    /\ flows[f].pc \in {"direct", "proxy"}
    /\ flows' = [flows EXCEPT ![f] =
                    [@ EXCEPT !.pc = "handled",
                              !.ret = IF ok THEN "ok" ELSE "io_err"]]
    /\ UNCHANGED << config, bindings, ledger, clock, task, client, next_id,
                    direct >>

\* the dispatcher closes the flow's record and returns
Finish(f) ==
    /\ flows[f].pc = "handled"
    /\ ledger' = shutdown_connection(ledger, flows[f].id, clock)
    /\ flows' = [flows EXCEPT ![f] = [@ EXCEPT !.pc = "returned"]]
    /\ UNCHANGED << config, bindings, clock, task, client, next_id, direct >>

----------------------------------------------------------------------------
(* The Direct transport: DirectClient::handle_tcp and handle_udp *)

\* the reverse readers forward at most MaxForwards datagrams to the TUN socket
MaxForwards == 2

\* the sources datagrams reach the TUN UDP socket from
Sources == {SocketAddr(OutsideIp, 50000), SocketAddr(OutsideIp, 50001)}

\* what lookup_ip returns: Result<Option<String>>
Lookups ==
    {[ok |-> FALSE, ip |-> None], [ok |-> TRUE, ip |-> None],
     [ok |-> TRUE, ip |-> Some(FormatAddr(RealIp))]}

\* ResolvedAddr with a fault: an empty answer dials the unspecified address
ResolvedAddrOrDefault(addr, lookup) ==
    IF ~lookup.ok THEN [ok |-> FALSE, err |-> "dns_err", addr |-> addr.addr]
    ELSE IF lookup.ip = None
    THEN [ok |-> TRUE, err |-> "", addr |-> SocketAddr(0, addr.addr.port)]
    ELSE [ok |-> TRUE, err |-> "",
          addr |-> SocketAddr(ParseAddr(lookup.ip[1]), addr.addr.port)]

\* the Address::DomainNameAddress arm: lookup_ip(..).await?, NotFound on
\* None, SocketAddr::new(ip.parse(), port) on Some(ip)
ResolvedAddr(addr, lookup) ==
    IF ~lookup.ok THEN [ok |-> FALSE, err |-> "dns_err", addr |-> addr.addr]
    ELSE IF lookup.ip = None
    THEN [ok |-> FALSE, err |-> "not_found", addr |-> addr.addr]
    ELSE [ok |-> TRUE, err |-> "",
          addr |-> SocketAddr(ParseAddr(lookup.ip[1]), addr.addr.port)]

NoSockets == [s \in {} |-> 0]

\* before handle_tcp / handle_udp is called
IdleDirect ==
    [pc |-> "idle", network |-> "tcp",
     addr |-> DomainNameAddress("example.org", 443),
     dns_queries |-> 0, lookup |-> [ok |-> TRUE, ip |-> None],
     sock_addr |-> SocketAddr(0, 0), dialed |-> 0,
     pump_a |-> "unborn", pump_b |-> "unborn",
     udp_map |-> NoSockets, src |-> SocketAddr(0, 0), binds |-> 0,
     udp_socket |-> 0, readers |-> NoSockets, forwarded |-> 0,
     seen |-> {}, inserted |-> {}, sent |-> {}, fwd |-> {},
     ret |-> "pending"]

\* where the handler goes once it has sock_addr: TcpStream::connect, or the
\* loop's socket.recv_from
Resolved(network) == IF network = "tcp" THEN "connect" ELSE "recv"

\* the handler's future is alive and waits at one of handle_udp's awaits
InUdpLoop == direct.pc \in {"recv", "bind", "send"}

\* handle_tcp / handle_udp is called: a numeric address is taken as it is,
\* a domain goes to lookup_ip
Call(network, addr) ==
    /\ direct.pc = "idle"
    /\ direct' =
          IF addr.form = "socket"
          THEN [direct EXCEPT !.pc = Resolved(network), !.network = network,
                              !.addr = addr, !.sock_addr = addr.addr]
          ELSE [direct EXCEPT !.pc = "lookup", !.network = network,
                              !.addr = addr, !.dns_queries = @ + 1]
    /\ UNCHANGED << config, dispatcher, bindings, ledger, clock, task >>

\* send_query(..).await returns and the match on the answer is taken
LookupReturns(lookup) ==
    /\ direct.pc = "lookup"
    /\ LET r == ResolvedAddr(direct.addr, lookup)
       IN  direct' =
              IF r.ok
              THEN [direct EXCEPT !.pc = Resolved(direct.network),
                                  !.lookup = lookup, !.sock_addr = r.addr]
              ELSE [direct EXCEPT !.pc = "returned", !.lookup = lookup,
                                  !.ret = r.err]
    /\ UNCHANGED << config, dispatcher, bindings, ledger, clock, task >>

\* TcpStream::connect(sock_addr).await?, then the two copies are made and
\* joined
Connect(ok) ==
    /\ direct.pc = "connect"
    /\ direct' =
          IF ok
          THEN [direct EXCEPT !.pc = "join", !.dialed = @ + 1,
                              !.pump_a = "running", !.pump_b = "running"]
          ELSE [direct EXCEPT !.pc = "returned", !.dialed = @ + 1,
                              !.ret = "io_err"]
    /\ UNCHANGED << config, dispatcher, bindings, ledger, clock, task >>

\* copy a (tun -> upstream) reaches EOF or fails
PumpAEnds(how) ==
    /\ direct.pc = "join"
    /\ direct.pump_a = "running"
    /\ direct' = [direct EXCEPT !.pump_a = how]
    /\ UNCHANGED << config, dispatcher, bindings, ledger, clock, task >>

\* copy b (upstream -> tun) reaches EOF or fails
PumpBEnds(how) ==
    /\ direct.pc = "join"
    /\ direct.pump_b = "running"
    /\ direct' = [direct EXCEPT !.pump_b = how]
    /\ UNCHANGED << config, dispatcher, bindings, ledger, clock, task >>

\* Join with a fault: the join is ready as soon as one copy has failed
JoinOnFirstError ==
    /\ direct.pc = "join"
    /\ \/ direct.pump_a = "err"
       \/ direct.pump_b = "err"
       \/ direct.pump_a # "running" /\ direct.pump_b # "running"
    /\ direct' = [direct EXCEPT
                     !.pc = "returned",
                     !.ret = IF direct.pump_a = "err" THEN "err_a"
                             ELSE IF direct.pump_b = "err" THEN "err_b"
                             ELSE "ok"]
    /\ UNCHANGED << config, dispatcher, bindings, ledger, clock, task >>

\* future::join!(a, b).await is ready when both copies are; ret_a?; ret_b?
Join ==
    /\ direct.pc = "join"
    /\ direct.pump_a # "running"
    /\ direct.pump_b # "running"
    /\ direct' = [direct EXCEPT
                     !.pc = "returned",
                     !.ret = IF direct.pump_a = "err" THEN "err_a"
                             ELSE IF direct.pump_b = "err" THEN "err_b"
                             ELSE "ok"]
    /\ UNCHANGED << config, dispatcher, bindings, ledger, clock, task >>

\* the handler's frame is dropped: udp_map goes with it, the tasks it
\* spawned are detached and stay
Exit(pc, ret) ==
    [direct EXCEPT !.pc = pc, !.ret = ret, !.udp_map = NoSockets]

\* MapGet with a fault: the table never finds the source
MapGetMiss(map, src) == None

\* udp_map.get(&local_src).cloned()
MapGet(map, src) == IF src \in DOMAIN map THEN Some(map[src]) ELSE None

\* socket.recv_from(&mut buf).await? and the look into udp_map; seen keeps
\* the sources datagrams have come from
RecvFromTun(ok, src) ==
    /\ direct.pc = "recv"
    /\ direct' =
          IF ~ok THEN Exit("returned", "io_err")
          ELSE LET got == MapGet(direct.udp_map, src)
               IN  IF got # None
                   THEN [direct EXCEPT !.pc = "send", !.src = src,
                                       !.seen = @ \cup {src},
                                       !.udp_socket = got[1]]
                   ELSE [direct EXCEPT !.pc = "bind", !.src = src,
                                       !.seen = @ \cup {src}]
    /\ UNCHANGED << config, dispatcher, bindings, ledger, clock, task >>

\* UdpSocket::bind("0.0.0.0:0").await?, udp_map.insert, task::spawn of the
\* reader, which takes local_src with it and whose JoinHandle is dropped;
\* inserted keeps every (source, socket) the table was given
Bind(ok) ==
    /\ direct.pc = "bind"
    /\ direct' =
          IF ~ok THEN Exit("returned", "io_err")
          ELSE LET k == direct.binds + 1
               IN  [direct EXCEPT
                       !.pc = "send", !.binds = k, !.udp_socket = k,
                       !.inserted = @ \cup {<<direct.src, k>>},
                       !.udp_map = [s \in DOMAIN @ \cup {direct.src} |->
                                       IF s = direct.src THEN k ELSE @[s]],
                       !.readers = [j \in DOMAIN @ \cup {k} |->
                                       IF j = k
                                       THEN [state |-> "running",
                                             local_src |-> direct.src]
                                       ELSE @[j]]]
    /\ UNCHANGED << config, dispatcher, bindings, ledger, clock, task >>

\* udp_socket.send_to(&buf, sock_addr).await?; sent keeps which socket
\* each source's datagrams left through, and where to
SendToUpstream(ok) ==
    /\ direct.pc = "send"
    /\ direct' =
          IF ok
          THEN [direct EXCEPT
                   !.pc = "recv",
                   !.sent = @ \cup {[src |-> direct.src,
                                     socket |-> direct.udp_socket,
                                     dst |-> direct.sock_addr]}]
          ELSE Exit("returned", "io_err")
    /\ UNCHANGED << config, dispatcher, bindings, ledger, clock, task >>

\* the handler's future is dropped while it waits
Cancel ==
    /\ InUdpLoop
    /\ direct' = Exit("cancelled", "pending")
    /\ UNCHANGED << config, dispatcher, bindings, ledger, clock, task >>

\* one round of a reader task: cloned_new_udp.recv_from, then
\* cloned_socket.send_to(.., &local_src) on the TUN socket; fwd keeps where
\* the datagrams read from each socket went
ReaderForwards(k) ==
    /\ k \in DOMAIN direct.readers
    /\ direct.readers[k].state = "running"
    /\ direct.forwarded < MaxForwards
    /\ direct' = [direct EXCEPT
                     !.forwarded = @ + 1,
                     !.fwd = @ \cup {<<k, direct.readers[k].local_src>>}]
    /\ UNCHANGED << config, dispatcher, bindings, ledger, clock, task >>

\* a reader task's recv_from or send_to fails and `?` ends the task
ReaderFails(k) ==
    /\ k \in DOMAIN direct.readers
    /\ direct.readers[k].state = "running"
    /\ direct' = [direct EXCEPT !.readers[k].state = "stopped"]
    /\ UNCHANGED << config, dispatcher, bindings, ledger, clock, task >>

----------------------------------------------------------------------------
(* Specifications *)

EmptyLedger == <<>>
NoHosts == [d \in {} |-> 0]

\* the state after construction, for a configuration (hosts, rules,
\* bypass_direct): an empty store, every resolver task waiting for a query
InitWith(h, r, bp) ==
    /\ hosts = h
    /\ rules = r
    /\ bypass_direct = bp
    /\ bindings = <<>>
    /\ ledger = EmptyLedger
    /\ clock = StartClock
    /\ task = [t \in Tasks |-> IdleTask]
    /\ client = RuleOnlyClient
    /\ flows = [f \in Flows |-> IdleFlow]
    /\ next_id = 1
    /\ direct = IdleDirect

\* the hosts files of the model: an empty one, and one naming corp.local
HostsFiles == { NoHosts, [d \in {"corp.local"} |-> HostsIp] }

\* the rule sets of the model: every assignment of a result to each domain
RuleSets == [Domains -> RuleResults]

\* the resolver under every configuration, the ledger left empty
Init ==
    \E h \in HostsFiles, r \in RuleSets, bp \in BOOLEAN : InitWith(h, r, bp)

ResolverNext ==
    \E t \in Tasks :
        \/ \E d \in Domains, q \in QTypes : Resolve(t, d, q)
        \/ ResolveReal(t)
        \/ ResolveStore(t)
        \/ Return(t)

Next == ResolverNext

Spec == Init /\ [][Next]_vars

\* one configuration whose three domains all reach the store (no hosts file,
\* bypass_direct off), with flows opening and closing beside the resolver
PoolRules ==
    [d \in Domains |->
        CASE d = "baidu.com" -> "None"
          [] d = "example.org" -> "Proxy"
          [] OTHER -> "Direct"]

InitPool == InitWith(NoHosts, PoolRules, FALSE)

NextPool ==
    \/ \E t \in Tasks :
          \/ \E d \in Domains, q \in {"A", "AAAA"} : Resolve(t, d, q)
          \/ ResolveStore(t)
          \/ Return(t)
    \/ \E id \in Ids, host \in Domains : NewConnection(id, host)
    \/ \E id \in Ids : ShutdownConnection(id)

SpecPool == InitPool /\ [][NextPool]_vars

\* the ledger alone, under a running clock
InitLedger == InitWith(NoHosts, PoolRules, FALSE)

NextLedger ==
    \/ \E id \in Ids : NewConnection(id, "baidu.com")
    \/ \E id \in Ids, bytes \in ByteCounts,
          last_update \in {None} \cup {Some(t) : t \in Times} :
          UpdateConnection(id, bytes, last_update)
    \/ \E id \in Ids : ShutdownConnection(id)
    \/ \E timeout_secs \in Timeouts : ClearDeadConnections(timeout_secs)
    \/ Tick

SpecLedger == InitLedger /\ [][NextLedger]_vars

\* the dispatcher under every configuration, two flows at a time, with the
\* sweeper clearing dead records behind it
InitFlow ==
    /\ hosts = NoHosts
    /\ rules = PoolRules
    /\ bypass_direct = FALSE
    /\ bindings = <<>>
    /\ ledger = EmptyLedger
    /\ clock = StartClock
    /\ task = [t \in Tasks |-> IdleTask]
    /\ client \in Clients
    /\ flows = [f \in Flows |-> IdleFlow]
    /\ next_id = 1
    /\ direct = IdleDirect

NextFlow ==
    \/ \E f \in Flows, network \in Networks, addr \in Addresses :
          Accept(f, network, addr)
    \/ \E f \in Flows, os \in OsResults : Dispatch(f, os)
    \/ \E f \in Flows, ok \in BOOLEAN : TransportReturns(f, ok)
    \/ \E f \in Flows : Finish(f)
    \/ ClearDeadConnections(0)

SpecFlow == InitFlow /\ [][NextFlow]_vars

\* one call of the Direct transport, with the reader tasks it leaves behind
InitDirect == InitWith(NoHosts, PoolRules, FALSE)

NextDirect ==
    \/ \E network \in Networks, addr \in Addresses : Call(network, addr)
    \/ \E lookup \in Lookups : LookupReturns(lookup)
    \/ \E ok \in BOOLEAN : Connect(ok)
    \/ \E how \in {"eof", "err"} : PumpAEnds(how)
    \/ \E how \in {"eof", "err"} : PumpBEnds(how)
    \/ Join
    \/ \E ok \in BOOLEAN, src \in Sources : RecvFromTun(ok, src)
    \/ \E ok \in BOOLEAN : Bind(ok)
    \/ \E ok \in BOOLEAN : SendToUpstream(ok)
    \/ Cancel
    \/ \E k \in 1..Cardinality(Sources) : ReaderForwards(k)
    \/ \E k \in 1..Cardinality(Sources) : ReaderFails(k)

SpecDirect == InitDirect /\ [][NextDirect]_vars

----------------------------------------------------------------------------
(* Properties of the binding store and the resolver *)

\* resolver task t holds a packet that answers its query with one synthetic
\* address
SyntheticDone(t) ==
    /\ task[t].pc = "done"
    /\ task[t].ret.ok
    /\ Len(task[t].ret.answers) = 1
    /\ task[t].ret.answers[1].addr \in PoolIps

\* the step in which task t gets its address from the store and answers
StoreAnswers(t) == task[t].pc = "store" /\ task'[t].pc = "done"

\* C1, as amended: at any time, for every domain that holds a binding (it was
\* answered with a synthetic address and the binding has not been evicted
\* since), the reverse lookup of that address returns the domain; no two
\* domains are bound to one address at the same time, and an address bound
\* to no domain, in the pool or outside it, looks up to None.
C1_RoundTripWhileBound ==
    /\ \A i \in 1..Len(bindings) :
          /\ bindings[i].ip \in PoolIps
          /\ lookup_host(FormatAddr(bindings[i].ip)) = Some(bindings[i].host)
    /\ \A i, j \in 1..Len(bindings) :
          i # j => /\ bindings[i].ip # bindings[j].ip
                   /\ bindings[i].host # bindings[j].host
    /\ \A ip \in (PoolIps \cup {OutsideIp}) \ UsedIps(bindings) :
          lookup_host(FormatAddr(ip)) = None

\* C1 witness: the pool is full, an eviction has reordered it, and a task
\* holds an answer whose address looks up to the domain it asked for
C1_Witness ==
    /\ Len(bindings) = PoolSize
    /\ bindings[1].ip # PoolBase + 1
    /\ \E t \in Tasks :
          /\ SyntheticDone(t)
          /\ lookup_host(FormatAddr(task[t].ret.answers[1].addr))
                = Some(task[t].domain)

\* C1 as stated: a domain that was answered with a synthetic address is what
\* the reverse lookup of that address returns ever after.
C1_Original ==
    [][ \A i \in 1..Len(bindings) :
           lookup_host(FormatAddr(bindings[i].ip))' = Some(bindings[i].host)
      ]_vars

\* C2, as amended: a query for d that reaches the store while d holds a
\* binding is answered with that binding's address and leaves the table as
\* it is; one that finds d unbound leaves d bound to the address it answers.
\* So all queries between the minting of d's binding and its eviction get
\* one address, also two tasks that resolve the same new domain at once.
C2_SameIpWhileBound ==
    [][ \A t \in Tasks :
           StoreAnswers(t) =>
              LET d == task[t].domain
                  ip == task'[t].ret.answers[1].addr
              IN  /\ BoundAt(bindings, d) # {} =>
                        /\ \E i \in BoundAt(bindings, d) : bindings[i].ip = ip
                        /\ bindings' = bindings
                  /\ \E i \in BoundAt(bindings', d) : bindings'[i].ip = ip
                  /\ Cardinality(BoundAt(bindings', d)) = 1
                  /\ \A u \in Tasks \ {t} :
                        ( /\ SyntheticDone(u)
                          /\ task[u].domain = d
                          /\ \E i \in BoundAt(bindings, d) :
                                bindings[i].ip = task[u].ret.answers[1].addr )
                        => task[u].ret.answers[1].addr = ip ]_vars

\* C2 witness: both tasks hold an answer for the same domain, with the same
\* address, while the other address of the pool is bound too
C2_Witness ==
    /\ Len(bindings) = PoolSize
    /\ \E t, u \in Tasks :
          /\ t # u
          /\ SyntheticDone(t) /\ SyntheticDone(u)
          /\ task[t].domain = task[u].domain
          /\ task[t].ret.answers[1].addr = task[u].ret.answers[1].addr

\* C2 as stated: two answers for the same domain carry the same address.
C2_Original ==
    \A t, u \in Tasks :
        (SyntheticDone(t) /\ SyntheticDone(u) /\ task[t].domain = task[u].domain)
        => task[t].ret.answers[1].addr = task[u].ret.answers[1].addr

\* task t returns in this step
Returns(t) == task[t].pc # "done" /\ task'[t].pc = "done"

\* an A/AAAA query for a domain /etc/hosts does not name
AddrQueryNoHosts(t) ==
    /\ task[t].qtype \in {"A", "AAAA"}
    /\ task[t].domain \notin DOMAIN hosts

\* what resolve may return when it forwards (d, q) upstream: the error, or
\* the upstream record under the queried name
ForwardedResults(d, q) ==
    { [ok |-> FALSE, answers |-> <<>>],
      [ok |-> TRUE,
       answers |-> << [rtype |-> q, domain |-> d, addr |-> RealIp,
                       ttl |-> UpstreamTtl] >>] }

\* C3: an A/AAAA query for a domain with a hosts entry is answered, under
\* every rule set, with exactly one record carrying the hosts address with
\* TTL 3, upstream is not queried, and the domain never gets a synthetic
\* binding.
C3_HostsOverride ==
    /\ \A t \in Tasks :
          ( /\ task[t].pc = "done"
            /\ task[t].qtype \in {"A", "AAAA"}
            /\ task[t].domain \in DOMAIN hosts )
          => /\ task[t].ret.ok
             /\ Len(task[t].ret.answers) = 1
             /\ task[t].ret.answers[1].addr = hosts[task[t].domain]
             /\ task[t].ret.answers[1].domain = task[t].domain
             /\ task[t].ret.answers[1].ttl = 3
             /\ task[t].upstream = 0
    /\ \A d \in DOMAIN hosts : BoundAt(bindings, d) = {}

\* C3 witness: a hosts domain the rules would bypass or reject was answered
\* while another domain holds a synthetic binding
C3_Witness ==
    \E t \in Tasks :
        /\ task[t].pc = "done"
        /\ task[t].qtype = "AAAA"
        /\ task[t].domain \in DOMAIN hosts
        /\ \/ rules[task[t].domain] = "Reject"
           \/ rules[task[t].domain] = "Direct" /\ bypass_direct
        /\ Len(bindings) > 0

\* C4: an A/AAAA query for a domain without hosts entry that the rules
\* reject returns a successful packet with no answers, whatever
\* bypass_direct is, and the call leaves the binding table as it was, with
\* no binding for the domain.
C4_RejectEmpty ==
    [][ \A t \in Tasks :
           ( /\ Returns(t)
             /\ AddrQueryNoHosts(t)'
             /\ rules[task'[t].domain] = "Reject" )
           => /\ task'[t].ret = [ok |-> TRUE, answers |-> <<>>]
              /\ bindings' = bindings
              /\ BoundAt(bindings', task'[t].domain) = {} ]_vars

\* C4 witness: a rejected query was answered with bypass_direct on
C4_Witness ==
    \E t \in Tasks :
        /\ task[t].pc = "done"
        /\ AddrQueryNoHosts(t)
        /\ rules[task[t].domain] = "Reject"
        /\ bypass_direct
        /\ task[t].ret.answers = <<>>

\* C5: with bypass_direct on, an A/AAAA query for a domain without hosts
\* entry that the rules send Direct returns what upstream answered, after
\* exactly one upstream query, and the call leaves the binding table as it
\* was, with no binding for the domain.
C5_BypassDirect ==
    [][ \A t \in Tasks :
           ( /\ Returns(t)
             /\ AddrQueryNoHosts(t)'
             /\ rules[task'[t].domain] = "Direct"
             /\ bypass_direct )
           => /\ task'[t].ret \in
                    ForwardedResults(task'[t].domain, task'[t].qtype)
              /\ task'[t].upstream = 1
              /\ bindings' = bindings
              /\ BoundAt(bindings', task'[t].domain) = {} ]_vars

\* C5 witness: a bypassed query was answered with the real address
C5_Witness ==
    \E t \in Tasks :
        /\ task[t].pc = "done"
        /\ AddrQueryNoHosts(t)
        /\ rules[task[t].domain] = "Direct"
        /\ bypass_direct
        /\ task[t].ret.ok
        /\ task[t].ret.answers[1].addr = RealIp

\* C6: a query of any type but A and AAAA is forwarded upstream and what
\* upstream answered is returned, also for a domain /etc/hosts names or the
\* rules reject; no step of the call changes the binding table.
C6_OtherTypesForwarded ==
    [][ \A t \in Tasks :
           /\ ( task'[t].qtype \notin {"", "A", "AAAA"} /\ task'[t] # task[t] )
              => bindings' = bindings
           /\ ( Returns(t) /\ task'[t].qtype \notin {"A", "AAAA"} )
              => /\ task'[t].ret \in
                       ForwardedResults(task'[t].domain, task'[t].qtype)
                 /\ task'[t].upstream = 1 ]_vars

\* C6 witness: a TXT query for a rejected hosts domain got the upstream record
C6_Witness ==
    \E t \in Tasks :
        /\ task[t].pc = "done"
        /\ task[t].qtype = "TXT"
        /\ task[t].domain \in DOMAIN hosts
        /\ rules[task[t].domain] = "Reject"
        /\ task[t].ret.ok
        /\ Len(task[t].ret.answers) = 1

\* C7: an A/AAAA query for a domain without hosts entry whose rule result is
\* Proxy, None, or Direct with bypass_direct off, when it returns, returns
\* exactly one answer, an A record for the domain with TTL 3 carrying the
\* synthetic address the store binds to the domain, without an upstream
\* query.
C7_SyntheticAnswer ==
    [][ \A t \in Tasks :
           ( /\ Returns(t)
             /\ AddrQueryNoHosts(t)'
             /\ \/ rules[task'[t].domain] \in {"Proxy", "None"}
                \/ rules[task'[t].domain] = "Direct" /\ ~bypass_direct )
           => /\ task'[t].ret.ok
              /\ Len(task'[t].ret.answers) = 1
              /\ task'[t].ret.answers[1].rtype = "A"
              /\ task'[t].ret.answers[1].domain = task'[t].domain
              /\ task'[t].ret.answers[1].ttl = 3
              /\ \E i \in BoundAt(bindings', task'[t].domain) :
                    bindings'[i].ip = task'[t].ret.answers[1].addr
              /\ task'[t].ret.answers[1].addr \in PoolIps
              /\ task'[t].upstream = 0 ]_vars

\* C7 witness: a Direct domain was answered with a synthetic address,
\* bypass_direct being off
C7_Witness ==
    \E t \in Tasks :
        /\ SyntheticDone(t)
        /\ task[t].qtype = "AAAA"
        /\ rules[task[t].domain] = "Direct"
        /\ ~bypass_direct
        /\ \E i \in BoundAt(bindings, task[t].domain) :
              bindings[i].ip = task[t].ret.answers[1].addr

\* C8 as stated: when get_ipv4_by_host fails, resolve returns a successful
\* packet with no answers and the task does not panic.
C8_EmptyOnStoreError ==
    \A t \in Tasks :
        task[t].store_err =>
           /\ task[t].pc = "done"
           /\ task[t].ret = [ok |-> TRUE, answers |-> <<>>]

----------------------------------------------------------------------------
(* Properties of the connection ledger *)

\* C9: a record is created alive, shutdown_connection leaves it not alive,
\* and a record that is not alive is not alive after any further step
\* (update_connection, shutdown_connection, a tick, a sweep that keeps it):
\* is_alive goes from true to false once and never back.
C9_AliveOnce ==
    [][ /\ \A i \in 1..Len(ledger') :
              ledger'[i].id \notin RowIds(ledger) => ledger'[i].is_alive
        /\ \A i \in 1..Len(ledger), j \in 1..Len(ledger') :
              (ledger'[j].id = ledger[i].id /\ ~ledger[i].is_alive)
              => ~ledger'[j].is_alive
        /\ \A i \in 1..Len(ledger) :
              ~shutdown_connection(ledger, ledger[i].id, clock)[i].is_alive
      ]_vars

\* C9 witness: a record that was shut down and then updated, at a later
\* second, with byte counts and an explicit earlier timestamp
C9_Witness ==
    \E i \in 1..Len(ledger) :
        /\ ~ledger[i].is_alive
        /\ ledger[i].recv_bytes = 100
        /\ ledger[i].connect_time > StartClock
        /\ ledger[i].last_update < ledger[i].connect_time
        /\ clock > ledger[i].connect_time

\* C10 as stated: a second shutdown_connection(id), at the same or any later
\* second, leaves the ledger exactly as the first call left it.
C10_ShutdownIdempotent ==
    \A id \in Ids, later \in Times :
        later >= clock =>
           LET once == shutdown_connection(ledger, id, clock)
           IN  shutdown_connection(once, id, later) = once

\* C11: clear_dead_connections(timeout) deletes exactly the records that are
\* not alive and whose last update is at least timeout seconds old; a live
\* record is never deleted and every record it keeps is unchanged.  With
\* timeout 0 and no dead record stamped in the future (as after creations and
\* shutdowns only), what is left is the live records, one per live record.
C11_ClearDeletesExactlyExpired ==
    \A timeout_secs \in Timeouts :
        LET after == clear_dead_connections(ledger, timeout_secs, clock)
            Expired(r, timeout, now) ==
                ~r.is_alive /\ now - r.last_update >= timeout
        IN  /\ Rows(after) =
                  {r \in Rows(ledger) : ~Expired(r, timeout_secs, clock)}
            /\ RowIds(after) =
                  {r.id : r \in {x \in Rows(ledger) :
                                    ~Expired(x, timeout_secs, clock)}}
            /\ Len(after) = Cardinality(RowIds(after))
            /\ \A r \in Rows(ledger) : r.is_alive => r \in Rows(after)
            /\ ( /\ timeout_secs = 0
                 /\ \A r \in Rows(ledger) : ~r.is_alive => r.last_update <= clock )
               => /\ \A r \in Rows(after) : r.is_alive
                  /\ Len(after) =
                        Len(ledger) - Cardinality({i \in 1..Len(ledger) :
                                                     ~ledger[i].is_alive})

\* C11 witness: a table with a live record and a dead one, the dead one old
\* enough for timeout 1; clearing leaves the live record alone
C11_Witness ==
    /\ Len(ledger) = 2
    /\ \E i, j \in 1..2 :
          /\ ledger[i].is_alive
          /\ ~ledger[j].is_alive
          /\ clock - ledger[j].last_update >= 1
          /\ clear_dead_connections(ledger, 1, clock) = <<ledger[i]>>
          /\ clear_dead_connections(ledger, 0, clock) = <<ledger[i]>>

\* C12 as stated: every record of the ledger has connect_time <= last_update,
\* after any sequence of new_connection, update_connection (with None or any
\* Some(t)) and shutdown_connection
C12_ConnectBeforeLastUpdate ==
    \A r \in Rows(ledger) : r.connect_time <= r.last_update

\* C19: no two records of the ledger have the same id, after any sequence of
\* operations; new_connection with an id the ledger already holds fails and
\* leaves the ledger as it was
C19_UniqueIds ==
    /\ \A i, j \in 1..Len(ledger) : ledger[i].id = ledger[j].id => i = j
    /\ \A id \in RowIds(ledger) :
          LET again == new_connection(ledger, id, "baidu.com", "tcp", "client",
                                      "proxy.com", clock)
          IN  ~again.ok /\ again.ledger = ledger

\* C19 witness: two records, one of them shut down and updated since, and a
\* later new_connection under that record's id, which is refused
C19_Witness ==
    /\ Len(ledger) = 2
    /\ \E i \in 1..2 :
          /\ ~ledger[i].is_alive
          /\ ledger[i].recv_bytes = 100
          /\ clock > ledger[i].connect_time
          /\ ~new_connection(ledger, ledger[i].id, "baidu.com", "tcp",
                             "client", "proxy.com", clock).ok

----------------------------------------------------------------------------
(* Properties of the flow dispatcher *)

\* RuledClient has decided about the flow of task f
Dispatched(f) == flows[f].pc \in {"direct", "proxy", "handled", "returned"}

\* C13: with a proxy_uid configured, a flow whose endpoint (TCP: the TUN
\* socket's remote_addr, UDP: its local_addr) is not among the sockets the OS
\* lists for that user is handed to the Direct transport, whatever the rules
\* and the default action say; the Proxy transport is never invoked for it
C13_ForeignFlowGoesDirect ==
    \A f \in Flows :
        LET fl == flows[f]
            endpoint == IF fl.network = "tcp" THEN TunSocket.remote_addr
                        ELSE TunSocket.local_addr
        IN  ( /\ Dispatched(f)
              /\ client.proxy_uid # None
              /\ fl.os.ok
              /\ endpoint \notin fl.os.socks )
            => /\ fl.pc \in {"direct", "handled", "returned"}
               /\ fl.direct_calls = 1
               /\ fl.proxy_calls = 0
               /\ fl.ret \in {"pending", "ok", "io_err"}

\* C13 witness: a UDP flow whose remote end is the user's but whose local end
\* is not, named by a Proxy rule, and a TCP flow whose remote end is not the
\* user's under a default action of Reject; both went to the Direct transport
C13_Witness ==
    \E f, g \in Flows :
        /\ client.proxy_uid # None
        /\ client.default_action = "Reject"
        /\ flows[f].network = "udp"
        /\ flows[f].os = [ok |-> TRUE, socks |-> {TunSocket.remote_addr}]
        /\ client.rule[DisplayName(flows[f].addr)] = "Proxy"
        /\ flows[f].pc = "returned"
        /\ flows[f].direct_calls = 1
        /\ flows[g].network = "tcp"
        /\ flows[g].os = [ok |-> TRUE, socks |-> {TunSocket.local_addr}]
        /\ client.rule[DisplayName(flows[g].addr)] = "None"
        /\ flows[g].pc = "direct"

\* C14: with a proxy_uid configured the OS is asked, and when the enumeration
\* fails the flow fails with that error and neither transport is invoked;
\* without a proxy_uid the OS is not asked and the action is the rules'
C14_EnumerationErrorFailsFlow ==
    \A f \in Flows :
        LET fl == flows[f]
        IN  Dispatched(f) =>
            /\ client.proxy_uid # None => fl.enumerated = 1
            /\ (client.proxy_uid # None /\ ~fl.os.ok)
               => /\ fl.pc \in {"handled", "returned"}
                  /\ fl.ret = "enum_err"
                  /\ fl.direct_calls = 0
                  /\ fl.proxy_calls = 0
            /\ client.proxy_uid = None
               => /\ fl.enumerated = 0
                  /\ ~fl.pass_proxy
                  /\ fl.ret # "enum_err"
                  /\ fl.action = RuleAction(client, DisplayName(fl.addr))

\* C14 witness: under a proxy_uid and a default action of Direct, a flow whose
\* enumeration failed has returned the error, while another flow of the same
\* dispatcher, whose enumeration succeeded, is with the Direct transport
C14_Witness ==
    \E f, g \in Flows :
        /\ client.proxy_uid # None
        /\ client.default_action = "Direct"
        /\ client.rule[DisplayName(flows[f].addr)] = "None"
        /\ flows[f].enumerated = 1
        /\ ~flows[f].os.ok
        /\ flows[f].pc = "returned"
        /\ flows[f].ret = "enum_err"
        /\ flows[g].os.ok
        /\ flows[g].pc = "direct"

\* C20: when the owner filter does not force Direct (no proxy_uid, or the
\* flow's endpoint is the user's), the action is the rule engine's action
\* for the flow's name - the domain, or the ip:port text of a numeric
\* address - or the default action if no rule matches; Direct invokes the
\* direct transport once and nothing else, Proxy the relay once and nothing
\* else, and Reject returns success with no transport invoked
C20_RuleBasedDispatch ==
    \A f \in Flows :
        LET fl == flows[f]
            endpoint == IF fl.network = "tcp" THEN TunSocket.remote_addr
                        ELSE TunSocket.local_addr
            name == IF fl.addr.form = "domain" THEN fl.addr.domain
                    ELSE "93.184.216.34:443"
            expected == IF client.rule[name] # "None" THEN client.rule[name]
                        ELSE client.default_action
        IN  ( /\ Dispatched(f)
              /\ \/ client.proxy_uid = None
                 \/ fl.os.ok /\ endpoint \in fl.os.socks )
            => /\ fl.action = expected
               /\ expected = "Direct"
                  => fl.direct_calls = 1 /\ fl.proxy_calls = 0
               /\ expected = "Proxy"
                  => fl.direct_calls = 0 /\ fl.proxy_calls = 1
               /\ expected = "Reject"
                  => /\ fl.direct_calls = 0 /\ fl.proxy_calls = 0
                     /\ fl.pc \in {"handled", "returned"}
                     /\ fl.ret = "ok"

\* C20 witness: a flow to a numeric address named by a Proxy rule is with the
\* relay, its endpoint being the user's, and a flow to a domain no rule names
\* has been rejected by the default action
C20_Witness ==
    \E f, g \in Flows :
        /\ client.proxy_uid # None
        /\ client.default_action = "Reject"
        /\ flows[f].addr.form = "socket"
        /\ client.rule["93.184.216.34:443"] = "Proxy"
        /\ flows[f].network = "tcp"
        /\ flows[f].os = [ok |-> TRUE, socks |-> {TunSocket.remote_addr}]
        /\ flows[f].pc = "proxy"
        /\ flows[f].proxy_calls = 1
        /\ flows[g].addr.form = "domain"
        /\ flows[g].os.ok
        /\ flows[g].action = "Reject"
        /\ flows[g].pc = "returned"
        /\ flows[g].ret = "ok"

----------------------------------------------------------------------------
(* Properties of the Direct transport *)

\* C16 as stated: in handle_tcp, once one of the two copies has failed the
\* other is cancelled, so the call can return the error whether or not the
\* other copy has finished
C16_FailedPumpCancelsOther ==
    ( /\ direct.pc = "join"
      /\ direct.pump_a = "err" \/ direct.pump_b = "err" )
    => ENABLED Join

\* C17 as stated: once handle_udp has returned or has been cancelled, no
\* reader task it spawned forwards a datagram to the TUN socket any more
C17_NoForwardAfterExit ==
    [][ (direct.network = "udp" /\ direct.pc \in {"returned", "cancelled"})
        => direct'.forwarded = direct.forwarded ]_vars

\* C18: in handle_tcp and handle_udp, a numeric address is used as it is and
\* no DNS query is sent; a domain is resolved with one query to the upstream
\* DNS client; an answer without an IPv4 address ends the call with NotFound,
\* and a failed query with the query's error, before any TCP connection is
\* dialed or any UDP socket is bound
C18_DirectAddressResolution ==
    direct.pc # "idle" =>
        /\ direct.addr.form = "socket"
           => /\ direct.dns_queries = 0
              /\ direct.sock_addr = direct.addr.addr
              /\ direct.ret \notin {"dns_err", "not_found"}
        /\ direct.addr.form = "domain" => direct.dns_queries = 1
        /\ direct.pc = "lookup" => direct.dialed = 0 /\ direct.binds = 0
        /\ (direct.addr.form = "domain" /\ direct.pc # "lookup")
           => /\ ~direct.lookup.ok
                 => /\ direct.pc = "returned" /\ direct.ret = "dns_err"
                    /\ direct.dialed = 0 /\ direct.binds = 0
              /\ (direct.lookup.ok /\ direct.lookup.ip = None)
                 => /\ direct.pc = "returned" /\ direct.ret = "not_found"
                    /\ direct.dialed = 0 /\ direct.binds = 0
              /\ (direct.lookup.ok /\ direct.lookup.ip # None)
                 => /\ direct.sock_addr = SocketAddr(RealIp, 443)
                    /\ direct.ret \notin {"dns_err", "not_found"}

\* C18 witness: handle_udp called for a domain whose answer held no IPv4
\* address has returned NotFound with nothing bound
C18_Witness ==
    /\ direct.network = "udp"
    /\ direct.addr.form = "domain"
    /\ direct.dns_queries = 1
    /\ direct.lookup = [ok |-> TRUE, ip |-> None]
    /\ direct.pc = "returned"
    /\ direct.ret = "not_found"
    /\ direct.binds = 0

\* C21: handle_tcp returns from the join only when both copies have
\* completed, each by EOF or by an error; it returns Ok only if both reached
\* EOF, and an error if either failed
C21_ReturnsAfterBothPumps ==
    (direct.network = "tcp" /\ direct.pc = "returned") =>
        /\ direct.pump_a # "unborn"
           => /\ direct.pump_a \in {"eof", "err"}
              /\ direct.pump_b \in {"eof", "err"}
              /\ (direct.pump_a = "err" \/ direct.pump_b = "err")
                 => direct.ret \in {"err_a", "err_b"}
        /\ direct.ret = "ok"
           => direct.pump_a = "eof" /\ direct.pump_b = "eof"
        /\ direct.ret = "err_a" => direct.pump_a = "err"
        /\ direct.ret = "err_b" => direct.pump_b = "err"

\* C21 witness: the copy upstream -> tun failed, the copy tun -> upstream
\* reached EOF, and handle_tcp has returned the error
C21_Witness ==
    /\ direct.network = "tcp"
    /\ direct.pc = "returned"
    /\ direct.dialed = 1
    /\ direct.pump_a = "eof"
    /\ direct.pump_b = "err"
    /\ direct.ret = "err_b"

\* C22: in one handle_udp call, whenever the handler is back at the head of
\* its loop or about to send, the NAT table has an entry for exactly the
\* sources datagrams have come from, no two sources share a socket, and one
\* reader task was spawned per entry (so sockets bound = readers = entries);
\* every datagram of source S left for the resolved upstream through the
\* socket the table holds for S, and every datagram a reader took from S's
\* socket went to S on the TUN socket
C22_OneSocketPerSource ==
    direct.network = "udp" =>
        /\ direct.pc \in {"recv", "send"}
           => DOMAIN direct.udp_map = direct.seen
        /\ InUdpLoop
           => /\ \A s, t \in DOMAIN direct.udp_map :
                    direct.udp_map[s] = direct.udp_map[t] => s = t
              /\ DOMAIN direct.readers =
                    {direct.udp_map[s] : s \in DOMAIN direct.udp_map}
              /\ direct.binds = Cardinality(DOMAIN direct.udp_map)
              /\ direct.inserted =
                    {<<s, direct.udp_map[s]>> : s \in DOMAIN direct.udp_map}
        /\ Cardinality(DOMAIN direct.readers) = direct.binds
        /\ \A x, y \in direct.inserted :
              (x[1] = y[1] \/ x[2] = y[2]) => x = y
        /\ \A x \in direct.sent :
              /\ <<x.src, x.socket>> \in direct.inserted
              /\ x.dst = direct.sock_addr
        /\ \A x \in direct.fwd : <<x[2], x[1]>> \in direct.inserted

\* C22 witness: datagrams have come from two sources, twice from one of them;
\* each source has its own socket, both have sent through it, and both
\* readers have forwarded a datagram back
C22_Witness ==
    /\ direct.network = "udp"
    /\ direct.pc = "send"
    /\ direct.seen = Sources
    /\ direct.binds = 2
    /\ Cardinality(direct.sent) = 2
    /\ direct.src \in {x.src : x \in direct.sent}
    /\ Cardinality(direct.fwd) = 2

\* C23: update_connection(id, recv, send, t) gives the record with that id
\* the byte counts recv and send and the last_update t, or the current time
\* when t is None, and changes nothing else of it; every other record and the
\* number of records stay as they were; when no record has the id, the ledger
\* is unchanged
C23_UpdateFrame ==
    \A id \in Ids, bytes \in ByteCounts \cup { <<1, 2>> },
       t \in {None} \cup {Some(x) : x \in Times} :
        LET after == update_connection(ledger, id, bytes[1], bytes[2], t, clock)
        IN  /\ Len(after) = Len(ledger)
            /\ \A i \in 1..Len(ledger) :
                  IF ledger[i].id = id
                  THEN /\ after[i].recv_bytes = bytes[1]
                       /\ after[i].send_bytes = bytes[2]
                       /\ after[i].last_update =
                             IF t = None THEN clock ELSE t[1]
                       /\ after[i].id = ledger[i].id
                       /\ after[i].host = ledger[i].host
                       /\ after[i].network = ledger[i].network
                       /\ after[i].conn_type = ledger[i].conn_type
                       /\ after[i].proxy_server = ledger[i].proxy_server
                       /\ after[i].connect_time = ledger[i].connect_time
                       /\ after[i].is_alive = ledger[i].is_alive
                       /\ DOMAIN after[i] = DOMAIN ledger[i]
                  ELSE after[i] = ledger[i]
            /\ id \notin RowIds(ledger) => after = ledger

\* C23 witness: record 1 has been swept, record 2 is closed and carries
\* earlier byte counts; updating 2 rewrites its counts and timestamp and
\* leaves it closed, updating 1 does nothing
C23_Witness ==
    /\ Len(ledger) = 1
    /\ ledger[1].id = 2
    /\ ~ledger[1].is_alive
    /\ ledger[1].recv_bytes = 100
    /\ clock > ledger[1].last_update
    /\ LET after == update_connection(ledger, 2, 1, 2, None, clock)
       IN  /\ after[1].recv_bytes = 1
           /\ after[1].last_update = clock
           /\ ~after[1].is_alive
    /\ update_connection(ledger, 1, 1, 2, None, clock) = ledger

====
